---------------------------- MODULE Spec2Model ----------------------------
(***************************************************************************)
(* Multi Info Cards (Power BI custom visual): the card layout engine, the  *)
(* renderer and the selection / highlight layer of Visual.update, as a     *)
(* state machine driven by the host's calls.                               *)
(*                                                                         *)
(* Two revisions of the visual live in the repository and both are         *)
(* modelled; the variable rev says which one an instance runs:             *)
(*   RevVisual  src/src/visual.ts      (update with inline sizes, l.301)   *)
(*   RevDims    src/unnamed/part_001   (update over getCardsDimensions)    *)
(*                                                                         *)
(* Conventions                                                             *)
(*   - a text is a sequence of one-character strings;                      *)
(*   - a JavaScript number that may be non-finite is a sequence of         *)
(*     integers: <<v>> is the finite number v, <<>> is NaN and <<1, 0>>    *)
(*     is Infinity;                                                        *)
(*   - an opacity is an integer number of 1/10000 (10000 is opaque).       *)
(***************************************************************************)
EXTENDS Integers, Sequences, FiniteSets, TLC

(***************************************************************************)
(* Bounds of the model                                                     *)
(***************************************************************************)
\* most records (category values) of a data view
MaxRecords == 3
\* most columns bound to the "informations" role
MaxFields == 2
\* most select promises the host holds unresolved at a time
MaxPending == 1
\* the cards the user clicks: the first MaxClicked of them
MaxClicked == 2
\* pixels the text-measurement oracle gives one character per point of font size
WidthPerPt == 5

(***************************************************************************)
(* JavaScript numbers                                                      *)
(***************************************************************************)
Num(v) == <<v>>
NaN == <<>>
Infinity == <<1, 0>>
IsFinite(x) == Len(x) = 1
Val(x) == x[1]

\* d3.min / d3.max of a two-element array of finite numbers
d3min(a, b) == IF a < b THEN a ELSE b
d3max(a, b) == IF a > b THEN a ELSE b

NegInfinity == <<-1, 0>>

\* Math.floor(x / y) for JavaScript numbers x >= 0 and y >= 0
FloorQ(x, y) ==
    IF x = NaN \/ y = NaN THEN NaN
    ELSE IF x = Infinity THEN (IF y = Infinity THEN NaN ELSE Infinity)
    ELSE IF y = Infinity THEN Num(0)
    ELSE IF Val(y) = 0 THEN (IF Val(x) = 0 THEN NaN ELSE Infinity)
    ELSE Num(Val(x) \div Val(y))

\* Math.ceil(x / y) for JavaScript numbers x >= 0 and y >= 0
CeilQ(x, y) ==
    IF x = NaN \/ y = NaN THEN NaN
    ELSE IF x = Infinity THEN (IF y = Infinity THEN NaN ELSE Infinity)
    ELSE IF y = Infinity THEN Num(0)
    ELSE IF Val(y) = 0 THEN (IF Val(x) = 0 THEN NaN ELSE Infinity)
    ELSE Num((Val(x) + Val(y) - 1) \div Val(y))

\* x * y for JavaScript numbers x >= 0 and y >= 0
Times(x, y) ==
    IF x = NaN \/ y = NaN THEN NaN
    ELSE IF x = Infinity THEN (IF y = Num(0) THEN NaN ELSE Infinity)
    ELSE IF y = Infinity THEN (IF x = Num(0) THEN NaN ELSE Infinity)
    ELSE Num(Val(x) * Val(y))

\* x - y for a finite x and a JavaScript number y >= 0
Minus(x, y) ==
    IF x = NaN \/ y = NaN THEN NaN
    ELSE IF y = Infinity THEN NegInfinity
    ELSE Num(Val(x) - Val(y))

RECURSIVE SumSeq(_)
SumSeq(s) == IF s = <<>> THEN 0 ELSE Head(s) + SumSeq(Tail(s))

(***************************************************************************)
(* Text measurement oracle (powerbi-visuals-utils-formattingutils)         *)
(***************************************************************************)
\* textMeasurementService.measureSvgTextWidth: proportional to the length
measureSvgTextWidth(text, fontSize) == Len(text) * fontSize * WidthPerPt

\* textMeasurementService.measureSvgTextHeight of the reference string: 4/3 px per pt
measureSvgTextHeight(fontSize) == (fontSize * 4) \div 3

(***************************************************************************)
(* Visual.separateTextInLines                                              *)
(***************************************************************************)
\* text.split(' ')
RECURSIVE SplitAcc(_, _, _)
SplitAcc(text, word, acc) ==
    IF text = <<>> THEN Append(acc, word)
    ELSE IF Head(text) = " " THEN SplitAcc(Tail(text), <<>>, Append(acc, word))
    ELSE SplitAcc(Tail(text), Append(word, Head(text)), acc)

Split(text) == SplitAcc(text, <<>>, <<>>)

\* what ' ' + null concatenates
NullWord == <<"n", "u", "l", "l">>

\* word.match(/.{1,m}/g) for m >= 1: chunks of at most m characters
RECURSIVE Chunks(_, _)
Chunks(word, m) ==
    IF Len(word) <= m THEN <<word>>
    ELSE <<SubSeq(word, 1, m)>> \o Chunks(SubSeq(word, m + 1, Len(word)), m)

\* word.match(new RegExp('.{1,' + maxLineLength + '}', 'g')), then [].concat of it:
\* a null match (the empty word; or any word when the braces are no quantifier,
\* i.e. maxLineLength negative, NaN or Infinity) concatenates the element null
MatchWord(word, maxLineLength) ==
    IF IsFinite(maxLineLength) /\ Val(maxLineLength) >= 1
    THEN (IF word = <<>> THEN <<NullWord>> ELSE Chunks(word, Val(maxLineLength)))
    ELSE <<NullWord>>

RECURSIVE ConcatWords(_, _)
ConcatWords(words, maxLineLength) ==
    IF words = <<>> THEN <<>>
    ELSE MatchWord(Head(words), maxLineLength) \o ConcatWords(Tail(words), maxLineLength)

\* (n > maxLineLength) in JavaScript: false against NaN
JsGreater(n, maxLineLength) ==
    IF maxLineLength = NaN THEN FALSE
    ELSE IF maxLineLength = Infinity THEN FALSE
    ELSE n > Val(maxLineLength)

\* s.slice(1)
Slice1(s) == IF s = <<>> THEN <<>> ELSE Tail(s)

\* the for-in loop: buildingLine keeps its leading blank until slice(1)
RECURSIVE BuildLines(_, _, _, _)
BuildLines(words, buildingLine, splittedLines, maxLineLength) ==
    IF words = <<>> THEN splittedLines
    ELSE LET w == Head(words)
             brk == JsGreater(Len(buildingLine) + 1 + Len(w), maxLineLength)
             lines1 == IF brk THEN Append(splittedLines, Slice1(buildingLine))
                       ELSE splittedLines
             line1 == (IF brk THEN <<>> ELSE buildingLine) \o <<" ">> \o w
             lines2 == IF Len(words) = 1 THEN Append(lines1, Slice1(line1)) ELSE lines1
         IN  BuildLines(Tail(words), line1, lines2, maxLineLength)

RegExpThrows(maxLineLength) == IsFinite(maxLineLength) /\ Val(maxLineLength) = 0

\* the lines; meaningful when RegExpThrows(maxLineLength) is false
separateTextInLines(text, maxLineLength) ==
    LET splittedWords == ConcatWords(Split(text), maxLineLength)
        splittedLines == BuildLines(splittedWords, <<>>, <<>>, maxLineLength)
    IN  SelectSeq(splittedLines, LAMBDA l : Len(l) > 0)


(***************************************************************************)
(* Inputs the host supplies                                                *)
(***************************************************************************)
RevVisual == "src/visual.ts"
RevDims == "part_001"

\* VisualSettings defaults (settings.ts) / the getValue defaults of part_001
DefaultObjects ==
    [cardWidth |-> 280, backgroundTransparency |-> 0, borderRadius |-> 0,
     titleFontSize |-> 12, fontSize |-> 10, secFontSize |-> 10,
     imageMode |-> "profile", coverImageHeight |-> 150]

\* the format pane changes one property at a time
ObjectsInputs ==
    {DefaultObjects}
    \cup {[DefaultObjects EXCEPT !.cardWidth = w] : w \in {10, 150, 1200, 5000}}
    \cup {[DefaultObjects EXCEPT !.backgroundTransparency = 50]}
    \cup {[DefaultObjects EXCEPT !.borderRadius = r] : r \in {-5, 20}}
    \cup {[DefaultObjects EXCEPT !.titleFontSize = 48]}
    \cup {[DefaultObjects EXCEPT !.secFontSize = fs] : fs \in {20, 30}}
    \cup {[DefaultObjects EXCEPT !.imageMode = "cover"]}

\* options.viewport.width
ViewportInputs == {0, 200, 600}

ShortText == <<"a">>
LongTexts == {<<"a", "a", " ", "a", "a">>, <<"a", "a", "a", "a", "a", "a", " ", "a">>}

\* the JavaScript values of a data view cell; t is the typeof class, s the text of
\* the string, and for a boolean or a number the text toString() returns
Str(s) == [t |-> "string", s |-> s]
Null == [t |-> "null", s |-> <<>>]
Undefined == [t |-> "undefined", s |-> <<>>]
True == [t |-> "boolean", s |-> <<"t", "r", "u", "e">>]
Five == [t |-> "number", s |-> <<"5">>]
IsString(v) == v.t = "string"
\* v == null
IsNullish(v) == v.t \in {"null", "undefined"}

\* a data view with a category of n values and f "informations" columns; dimmed
\* are the records whose highlights entry is null; images: an image column is bound;
\* columnType and format are source.type and source.format of the columns
\* ("none": the column has no format string)
PlainData(n, f) ==
    [kind |-> "data", n |-> n, f |-> f,
     values |-> [r \in 1..n |-> [j \in 1..f |-> Str(ShortText)]],
     dimmed |-> {}, images |-> FALSE, columnType |-> "text", format |-> "none"]

\* options.dataViews undefined, and options.dataViews = []
NoDataViews == [PlainData(0, 0) EXCEPT !.kind = "missing"]
EmptyDataViews == [PlainData(0, 0) EXCEPT !.kind = "empty"]

Shapes == (0..MaxRecords) \X (0..MaxFields)

\* the data view with one cell of PlainData(n, f) replaced by the text t
WithCell(n, f, r, j, t) == [PlainData(n, f) EXCEPT !.values[r][j] = Str(t)]

\* one record with one column of the given type and format that holds the value v
TypedCell(v, type, format) ==
    [PlainData(1, 1) EXCEPT !.values[1][1] = v, !.columnType = type, !.format = format]

\* a null and an undefined cell, a boolean column, a numeric column, none of them
\* with a format string
TypedCells ==
    {TypedCell(Null, "text", "none"), TypedCell(Undefined, "bool", "none"),
     TypedCell(True, "bool", "none"), TypedCell(Five, "numeric", "none")}

\* cells that get a long text: the first and the last record of the longest one-column
\* table, the first and the last cell of the widest two-record table
LongCells ==
    {<<MaxRecords, 1, 1, 1>>, <<MaxRecords, 1, MaxRecords, 1>>,
     <<2, MaxFields, 1, 1>>, <<2, MaxFields, 2, MaxFields>>}

\* a text column whose value has two consecutive blanks
SpacedCells == {TypedCell(Str(<<"a", " ", " ", "a">>), "text", "none")}

\* a text column whose value is the empty string, and one whose value is a blank
EmptyCells ==
    {TypedCell(Str(<<>>), "text", "none"), TypedCell(Str(<<" ">>), "text", "none")}

DataViewInputs ==
    {NoDataViews, EmptyDataViews}
    \cup {PlainData(s[1], s[2]) : s \in Shapes}
    \cup {[PlainData(1, 0) EXCEPT !.images = TRUE], [PlainData(2, 1) EXCEPT !.images = TRUE]}
    \cup {WithCell(c[1], c[2], c[3], c[4], t) : c \in LongCells, t \in LongTexts}
    \cup {[PlainData(2, 1) EXCEPT !.dimmed = {r}] : r \in 1..2}
    \cup TypedCells
    \cup SpacedCells
    \cup EmptyCells

\* the data views under which the format pane is changed
FormattedDataViews ==
    {PlainData(2, MaxFields), [PlainData(2, 1) EXCEPT !.images = TRUE],
     WithCell(2, MaxFields, 1, 1, <<"a", "a", " ", "a", "a">>)}

\* the VisualUpdateOptions the host calls update with
OptionsInputs ==
    {[dataView |-> dv, objects |-> DefaultObjects, width |-> w] :
        dv \in DataViewInputs, w \in ViewportInputs}
    \cup {[dataView |-> dv, objects |-> ob, width |-> w] :
        dv \in FormattedDataViews, ob \in ObjectsInputs, w \in ViewportInputs}

\* dataView.categorical.values is undefined when no measure column is bound
HasValues(dv) == dv.kind = "data" /\ (dv.f >= 1 \/ dv.images)


(***************************************************************************)
(* Sizing helpers of the Visual class                                      *)
(***************************************************************************)
\* positionCardInGrid filling the grid column by column instead of row by row
positionCardInGridByColumn(position, elementWidth, elementHeight, containerWidth) ==
    LET maxPerRow == FloorQ(Num(containerWidth), Num(elementWidth))
        row == FloorQ(Num(position), maxPerRow)
    IN  [x |-> Times(row, Num(elementWidth)),
         y |-> Times(Minus(Num(position), Times(maxPerRow, row)), Num(elementHeight))]

\* Visual.positionCardInGrid: the x and y of 'translate(x, y)'; position is 0-based
positionCardInGrid(position, elementWidth, elementHeight, containerWidth) ==
    LET maxPerRow == FloorQ(Num(containerWidth), Num(elementWidth))
        row == FloorQ(Num(position), maxPerRow)
    IN  [x |-> Times(Minus(Num(position), Times(maxPerRow, row)), Num(elementWidth)),
         y |-> Times(row, Num(elementHeight))]

\* calculateTotalSVGHeight that counts the full rows only
calculateTotalSVGHeightOfFullRows(dataLength, elementWidth, elementHeight, containerWidth) ==
    Times(FloorQ(Num(dataLength), FloorQ(Num(containerWidth), Num(elementWidth))),
          Num(elementHeight))

\* Visual.calculateTotalSVGHeight
calculateTotalSVGHeight(dataLength, elementWidth, elementHeight, containerWidth) ==
    Times(CeilQ(Num(dataLength), FloorQ(Num(containerWidth), Num(elementWidth))),
          Num(elementHeight))

\* maxCharsPerLine = Math.floor(textLength * (elementWidth / textWidth)) - 1, in exact
\* arithmetic; a zero textWidth (the empty text) gives 0 * Infinity = NaN
MaxCharsPerLine(text, fontSize, elementWidth) ==
    LET textWidth == measureSvgTextWidth(text, fontSize)
    IN  IF textWidth = 0 THEN NaN
        ELSE Num((Len(text) * elementWidth) \div textWidth - 1)

\* Visual.calculateMultiLineTextHeight
calculateMultiLineTextHeight(text, fontSize, cardWidth, fontHeight) ==
    Len(separateTextInLines(text, MaxCharsPerLine(text, fontSize, cardWidth))) * fontHeight

\* Visual.calculateInformationHeights
calculateInformationHeights(information, fontSize, maxWidth, fontHeight) ==
    [j \in 1..Len(information.values) |->
        calculateMultiLineTextHeight(information.values[j].s, fontSize, maxWidth,
                                     fontHeight)]

\* calculateInformationHeights throws for some value of some record: v.toString()
\* on null or undefined, or new RegExp on the text
InformationHeightsThrow(dataPoints, fontSize, maxWidth) ==
    \E i \in 1..Len(dataPoints) : \E j \in 1..Len(dataPoints[i].values) :
        \/ IsNullish(dataPoints[i].values[j])
        \/ RegExpThrows(MaxCharsPerLine(dataPoints[i].values[j].s, fontSize, maxWidth))

\* Visual.fitMultiLineLongText: the tspans; an empty line list still emits
\* '<tspan>' + splittedText[0] + '</tspan>'
fitMultiLineLongText(text, fontSize, elementWidth) ==
    LET splittedText == separateTextInLines(text, MaxCharsPerLine(text, fontSize, elementWidth))
    IN  IF splittedText = <<>> THEN <<<<"u", "n", "d", "e", "f", "i", "n", "e", "d">>>>
        ELSE splittedText

\* d3.transpose of n rows of f entries: f columns, none when there is no row
Transpose(rows) ==
    IF rows = <<>> THEN <<>>
    ELSE [j \in 1..Len(rows[1]) |-> [i \in 1..Len(rows) |-> rows[i][j]]]

\* getElementOpacity without the dimming of a record that is not highlighted
getElementOpacityUndimmed(transparency, highlighted) == (100 - transparency) * 100

\* Visual.getElementOpacity (visual.ts), in 1/10000
getElementOpacity(transparency, highlighted) ==
    (100 - transparency) * (IF highlighted THEN 100 ELSE 40)

\* Visual.changeOpacityOnHighlight (part_001), in 1/10000
changeOpacityOnHighlight(highlighted) == IF highlighted THEN 10000 ELSE 4000

\* Visual.isSelectionIdInArray: host equality of selection ids
isSelectionIdInArray(selectionIds, selectionId) == selectionId \in selectionIds


(***************************************************************************)
(* State                                                                   *)
(***************************************************************************)
VARIABLES
    rev,                \* the revision of the visual this instance runs
    options,            \* host: the VisualUpdateOptions of the latest update call
    allowInteractions,  \* host: host.allowInteractions
    selectionIds,       \* host: selectionManager.getSelectionIds()
    pending,            \* host: select promises not yet resolved
    isLandingPageOn,    \* this.isLandingPageOn
    LandingPageRemoved, \* this.LandingPageRemoved
    landingPages,       \* number of LandingPage elements attached to this.element
    cardSettings,       \* this.cardSettings
    layout,             \* the sizes the latest update call computed (its locals)
    svg,                \* the height and width the latest update call gave this.svg
    cards,              \* the g.card elements in the document, in order
    cardSelection,      \* this.cardSelection
    events,             \* renderingStarted / renderingFinished of the latest call
    threw               \* the latest update call ended by an exception

vars == <<rev, options, allowInteractions, selectionIds, pending, isLandingPageOn, LandingPageRemoved,
          landingPages, cardSettings, layout, svg, cards, cardSelection, events, threw>>

(***************************************************************************)
(* visualTransform                                                         *)
(***************************************************************************)
\* settings: <CardSettings>{} of the empty view model
EmptySettings ==
    [state |-> "empty", width |-> 0, transparency |-> 0, radius |-> 0,
     titleFontSize |-> 0, fontSize |-> 0, secFontSize |-> 0,
     imageMode |-> "profile", coverHeight |-> 0]

Blank == <<"(", "B", "l", "a", "n", "k", ")">>

\* getColumnDataType: the names it gives to the types of a column
ColumnTypes == {"bool", "text", "numeric", "dateTime", "integer", "duration", "binary"}
\* source.format: absent ("none"), '0', or another format string
Formats == {"none", "0", "g"}
\* cardSettings.cardInformations.values.displayUnits
DisplayUnits == {"Auto", "None"}

\* valueFormatter.create(...).format(value) of powerbi-visuals-utils-formattingutils:
\* always a string, the text of the value (the format and the display units do not
\* change the text of the values of the model), the localized '(Blank)' for null
valueFormatterFormat(value) == IF IsNullish(value) THEN Str(Blank) ELSE Str(value.s)

\* stringExtensions.isNullOrEmpty(result): result == null || result.length === 0;
\* length is undefined on a boolean and on a number
isNullOrEmpty(result) == IsNullish(result) \/ (IsString(result) /\ result.s = <<>>)

\* formatDataViewValues of visual.ts: the raw value when the column has no format
\* string and is not numeric
formatDataViewValuesVisual(value, type, format) ==
    IF format # "none" /\ type # "dateTime" THEN valueFormatterFormat(value)
    ELSE IF format # "none" /\ type = "dateTime" THEN valueFormatterFormat(value)
    ELSE IF type = "numeric" THEN valueFormatterFormat(value)
    ELSE value

\* result of formatDataViewValues of part_001 before the '(Blank)' substitution
FormatResultDims(value, type, format) ==
    IF IsNullish(value) THEN Null
    ELSE IF type = "numeric" /\ format \in {"0", "none"} THEN valueFormatterFormat(value)
    ELSE IF format # "none" /\ type # "dateTime" THEN valueFormatterFormat(value)
    ELSE IF format # "none" /\ type = "dateTime" THEN valueFormatterFormat(value)
    ELSE value

\* formatDataViewValues without the '(Blank)' substitution
formatDataViewValuesUnblanked(value, type, format, displayUnits, r) ==
    IF r = RevDims THEN FormatResultDims(value, type, format)
    ELSE formatDataViewValuesVisual(value, type, format)

formatDataViewValues(value, type, format, displayUnits, r) ==
    IF r = RevDims
    THEN LET result == FormatResultDims(value, type, format)
         IN  IF isNullOrEmpty(result) THEN Str(Blank) ELSE result
    ELSE formatDataViewValuesVisual(value, type, format)

\* cardSettings built by visualTransform; part_001 clamps radius to [0, 15]
TransformSettings(objects, r) ==
    [state |-> "set", width |-> objects.cardWidth,
     transparency |-> objects.backgroundTransparency,
     radius |-> IF r = RevDims THEN d3max(0, d3min(15, objects.borderRadius))
                ELSE objects.borderRadius,
     titleFontSize |-> objects.titleFontSize, fontSize |-> objects.fontSize,
     secFontSize |-> objects.secFontSize,
     imageMode |-> objects.imageMode, coverHeight |-> objects.coverImageHeight]

\* cardDataPoints built by visualTransform; selectionId i stands for
\* withCategory(categories[0], i)
TransformDataPoints(dv, r) ==
    [i \in 1..dv.n |->
        [selectionId |-> i,
         values |-> [j \in 1..dv.f |->
                        formatDataViewValues(dv.values[i][j], dv.columnType, dv.format,
                                             "Auto", r)],
         image |-> dv.images,
         highlights |-> IF dv.dimmed = {} THEN TRUE ELSE i \notin dv.dimmed]]

visualTransform(dv, objects, r) ==
    IF ~HasValues(dv) THEN [dataPoints |-> <<>>, settings |-> EmptySettings]
    ELSE [dataPoints |-> TransformDataPoints(dv, r),
          settings |-> TransformSettings(objects, r)]

(***************************************************************************)
(* Selection and highlight                                                 *)
(***************************************************************************)
\* the opacity syncSelectionState / the highlight pass give a card, per revision
ElementOpacity(settings, flag, r) ==
    IF r = RevVisual THEN getElementOpacity(settings.transparency, flag)
    ELSE changeOpacityOnHighlight(flag)

\* Visual.syncSelectionState over the card elements of a selection
syncSelectionState(selection, ids, settings, r) ==
    IF ids = {} THEN [i \in 1..Len(selection) |->
                        [selection[i] EXCEPT !.opacity = ElementOpacity(settings, TRUE, r)]]
    ELSE [i \in 1..Len(selection) |->
            [selection[i] EXCEPT !.opacity =
                ElementOpacity(settings, isSelectionIdInArray(ids, selection[i].selectionId), r)]]

\* "Support highlight": cards.each(... style('opacity', ...(d.highlights)))
HighlightPass(selection, settings, r) ==
    [i \in 1..Len(selection) |->
        [selection[i] EXCEPT !.opacity = ElementOpacity(settings, selection[i].highlights, r)]]

(***************************************************************************)
(* Visual.HandleLandingPage                                                *)
(***************************************************************************)
\* part_001 resets LandingPageRemoved when it shows the page, visual.ts does not
HandleLandingPage(dv, r) ==
    IF dv.kind \in {"missing", "empty"}
    THEN IF ~isLandingPageOn
         THEN [on |-> TRUE,
               removed |-> IF r = RevDims THEN FALSE ELSE LandingPageRemoved,
               attached |-> landingPages + 1]
         ELSE [on |-> isLandingPageOn, removed |-> LandingPageRemoved,
               attached |-> landingPages]
    ELSE IF isLandingPageOn /\ ~LandingPageRemoved
         THEN [on |-> FALSE, removed |-> TRUE, attached |-> landingPages - 1]
         ELSE [on |-> isLandingPageOn, removed |-> LandingPageRemoved,
               attached |-> landingPages]


(***************************************************************************)
(* Layout: the sizes computed by update (visual.ts) and by                 *)
(* getCardsDimensions (part_001)                                           *)
(***************************************************************************)
cardMargin == 5
cardPadding == 15

\* the dimensions object getCardsDimensions starts from, for a viewport width
ZeroDimensions(viewportWidth) ==
    [stage |-> "zero", cardWidth |-> 0, containerWidth |-> viewportWidth, cardHeight |-> 0,
     backgroundWidth |-> 0, backgroundHeight |-> 0, contentWidth |-> 0, contentHeight |-> 0,
     titleFontHeight |-> 0, fieldsFontHeight |-> 0, valuesFontHeight |-> 0,
     hasImages |-> FALSE, imageX |-> 0, imageY |-> 0, imageWidth |-> 0, imageHeight |-> 0,
     titleX |-> 0, titleY2 |-> 0, titleWidth |-> 0, infoYPadding |-> 0,
     informationHeights |-> <<>>, longestHeights |-> <<>>, totalLongestHeight |-> 0,
     numFields |-> 0]

\* no size was computed by the call
NoLayout == [ZeroDimensions(0) EXCEPT !.stage = "none"]

\* i.reduce((a, b) => a > b ? a + 2 : b + 2) of visual.ts: no initial value
RECURSIVE ReduceLongest(_, _)
ReduceLongest(a, rest) ==
    IF rest = <<>> THEN a
    ELSE ReduceLongest(IF a > Head(rest) THEN a + 2 ELSE Head(rest) + 2, Tail(rest))

\* i.reduce((a, b) => a > b ? a : b, 0) of part_001
RECURSIVE ReduceMax(_, _)
ReduceMax(a, rest) ==
    IF rest = <<>> THEN a
    ELSE ReduceMax(IF a > Head(rest) THEN a ELSE Head(rest), Tail(rest))

\* the heights of every record's values at the values font, n rows of f entries
InformationHeights(dataPoints, settings, maxWidth, valuesHeight) ==
    [i \in 1..Len(dataPoints) |->
        calculateInformationHeights(dataPoints[i], settings.secFontSize, maxWidth, valuesHeight)]

\* longestHeights taken from the first record alone
LongestHeightsOfFirstRecord(informationHeights) == Head(informationHeights)

\* longestHeights of visual.ts
LongestHeightsVisual(informationHeights) ==
    LET columns == Transpose(informationHeights)
    IN  [j \in 1..Len(columns) |-> ReduceLongest(Head(columns[j]), Tail(columns[j]))]

\* dimensions.body.informations.heights of part_001
LongestHeightsDims(informationHeights) ==
    LET columns == Transpose(informationHeights)
    IN  [j \in 1..Len(columns) |-> ReduceMax(0, columns[j]) + 5]

\* 24 * (0.5 + Math.floor(cardWidth / 100))
ImageSize(cardWidth) == 12 + 24 * (cardWidth \div 100)

\* d3.min([d3.max([150, width]), 1200])
ClampCardWidth(width) == d3min(d3max(150, width), 1200)

\* cardHeight without the line reserved for each field label
CardHeightWithoutLabels(totalLongestHeight, fieldsFontHeight, numFields, hasImages, titleFontHeight, imageHeight) ==
    30 + totalLongestHeight
    + (IF hasImages THEN d3max(titleFontHeight, imageHeight) ELSE titleFontHeight * 2)

\* cardHeight of update in visual.ts
CardHeightVisual(totalLongestHeight, fieldsFontHeight, numFields, hasImages, titleFontHeight, imageHeight) ==
    30 + totalLongestHeight + fieldsFontHeight * numFields
    + (IF hasImages THEN d3max(titleFontHeight, imageHeight) ELSE titleFontHeight * 2)

\* the locals of update in visual.ts, lines 320-361, for at least one record
SizesVisual(settings, dataPoints, viewportWidth) ==
    LET hasImages == \E i \in 1..Len(dataPoints) : dataPoints[i].image
        cardWidth == ClampCardWidth(settings.width)
        contentWidth == cardWidth - 2 * cardPadding
        imageHeight == ImageSize(cardWidth)
        titleFontHeight == measureSvgTextHeight(settings.titleFontSize)
        fieldsFontHeight == measureSvgTextHeight(settings.fontSize)
        valuesFontHeight == measureSvgTextHeight(settings.secFontSize)
        informationHeights ==
            InformationHeights(dataPoints, settings, contentWidth, valuesFontHeight)
        longestHeights == LongestHeightsVisual(informationHeights)
        totalLongestHeight == SumSeq(longestHeights)
        numFields == Len(dataPoints[1].values)
        cardHeight == CardHeightVisual(totalLongestHeight, fieldsFontHeight, numFields,
                                       hasImages, titleFontHeight, imageHeight)
    IN  [stage |-> "done", cardWidth |-> cardWidth, containerWidth |-> viewportWidth,
         cardHeight |-> cardHeight,
         backgroundWidth |-> cardWidth - 2 * cardMargin,
         backgroundHeight |-> cardHeight - 2 * cardMargin,
         contentWidth |-> contentWidth, contentHeight |-> cardHeight - 2 * cardPadding,
         titleFontHeight |-> titleFontHeight, fieldsFontHeight |-> fieldsFontHeight,
         valuesFontHeight |-> valuesFontHeight,
         hasImages |-> hasImages, imageX |-> cardPadding, imageY |-> cardPadding,
         imageWidth |-> imageHeight, imageHeight |-> imageHeight,
         titleX |-> IF hasImages THEN cardPadding + 10 + imageHeight ELSE cardPadding,
         titleY2 |-> IF hasImages THEN (imageHeight + cardPadding) + titleFontHeight
                     ELSE 2 * (cardPadding + titleFontHeight),
         titleWidth |-> IF hasImages THEN contentWidth - imageHeight - 20 ELSE contentWidth,
         infoYPadding |-> cardPadding + (IF hasImages THEN d3max(imageHeight, titleFontHeight)
                                         ELSE titleFontHeight * 2),
         informationHeights |-> informationHeights, longestHeights |-> longestHeights,
         totalLongestHeight |-> totalLongestHeight, numFields |-> numFields]

\* Visual.getCardsDimensions of part_001 past its early return, for at least one record
getCardsDimensions(settings, dataPoints, viewportWidth) ==
    LET hasImages == \E i \in 1..Len(dataPoints) : dataPoints[i].image
        titlesHeight == measureSvgTextHeight(settings.titleFontSize)
        fieldsHeight == measureSvgTextHeight(settings.fontSize)
        valuesHeight == measureSvgTextHeight(settings.secFontSize)
        cardWidth == ClampCardWidth(settings.width)
        backgroundWidth == cardWidth - 2 * cardMargin
        innerWidth == cardWidth - 2 * cardPadding
        informationHeights == InformationHeights(dataPoints, settings, innerWidth, valuesHeight)
        heights == LongestHeightsDims(informationHeights)
        totalHeight == SumSeq(heights)
        numFields == Len(dataPoints[1].values)
        profile == hasImages /\ settings.imageMode = "profile"
        cover == hasImages /\ settings.imageMode # "profile"
        imageX == IF profile THEN cardPadding ELSE IF cover THEN cardMargin ELSE 0
        imageY == IF profile THEN cardPadding
                  ELSE IF cover THEN cardMargin + settings.radius ELSE 0
        imageWidth == IF profile THEN ImageSize(cardWidth)
                      ELSE IF cover THEN backgroundWidth ELSE 0
        imageHeight == IF profile THEN ImageSize(cardWidth)
                       ELSE IF cover
                            THEN d3max(40, d3min(settings.coverHeight, 480)) - settings.radius
                            ELSE 0
        cardHeight == 30 + totalHeight + fieldsHeight * numFields
                      + (IF profile THEN d3max(titlesHeight, imageHeight) + valuesHeight
                         ELSE IF cover THEN imageY + imageHeight + titlesHeight + valuesHeight
                         ELSE titlesHeight + valuesHeight)
    IN  [stage |-> "done", cardWidth |-> cardWidth,
         containerWidth |-> d3max(cardWidth, viewportWidth),
         cardHeight |-> cardHeight,
         backgroundWidth |-> backgroundWidth,
         backgroundHeight |-> cardHeight - 2 * cardMargin,
         contentWidth |-> innerWidth, contentHeight |-> cardHeight - 2 * cardMargin,
         titleFontHeight |-> titlesHeight, fieldsFontHeight |-> fieldsHeight,
         valuesFontHeight |-> valuesHeight,
         hasImages |-> hasImages, imageX |-> imageX, imageY |-> imageY,
         imageWidth |-> imageWidth, imageHeight |-> imageHeight,
         titleX |-> IF profile THEN cardPadding + 10 + imageWidth ELSE cardPadding,
         titleY2 |-> IF profile THEN (imageHeight + cardPadding) + titlesHeight
                     ELSE IF cover
                          THEN 2 * (cardPadding + imageY + imageHeight + titlesHeight)
                          ELSE 2 * (cardPadding + titlesHeight),
         titleWidth |-> IF profile THEN innerWidth - imageWidth - 20 ELSE innerWidth,
         infoYPadding |-> IF profile THEN cardPadding + d3max(imageHeight, titlesHeight)
                          ELSE IF cover
                               THEN cardPadding + imageY + imageHeight + titlesHeight + 10
                               ELSE cardPadding + titlesHeight + 10,
         informationHeights |-> informationHeights, longestHeights |-> heights,
         totalLongestHeight |-> totalHeight, numFields |-> numFields]


(***************************************************************************)
(* Renderer                                                                *)
(***************************************************************************)
\* s.slice(0, i)
Slice0(s, i) == SubSeq(s, 1, IF i < Len(s) THEN i ELSE Len(s))

\* the g.card elements update appends (enter selection) with their inner elements,
\* before any opacity is styled
RenderCards(dataPoints, L, settings, r) ==
    [i \in 1..Len(dataPoints) |->
        LET d == dataPoints[i]
            t == positionCardInGrid(i - 1, L.cardWidth, L.cardHeight, L.containerWidth)
        IN  [selectionId |-> d.selectionId, highlights |-> d.highlights, filled |-> TRUE,
             x |-> t.x, y |-> t.y, opacity |-> 10000,
             background |->
                [x |-> cardMargin, y |-> cardMargin,
                 height |-> L.backgroundHeight, width |-> L.backgroundWidth,
                 rx |-> IF r = RevVisual THEN d3min(15, settings.radius) ELSE settings.radius,
                 opacity |-> IF r = RevVisual THEN 10000
                             ELSE (100 - settings.transparency) * 100],
             title |-> [x |-> L.titleX, y2 |-> L.titleY2, width |-> L.titleWidth],
             image |-> IF L.hasImages
                       THEN [present |-> TRUE, x |-> L.imageX, y |-> L.imageY,
                             width |-> L.imageWidth, height |-> L.imageHeight]
                       ELSE [present |-> FALSE, x |-> 0, y |-> 0, width |-> 0, height |-> 0],
             fields |->
                [j \in 1..Len(d.values) |->
                    L.infoYPadding + j * L.fieldsFontHeight
                    + SumSeq(Slice0(L.longestHeights, j - 1))],
             values |->
                [j \in 1..Len(d.values) |->
                    [y |-> L.infoYPadding + L.valuesFontHeight + j * L.fieldsFontHeight
                           + SumSeq(Slice0(L.longestHeights, j - 1)),
                     dy |-> L.valuesFontHeight,
                     lines |-> fitMultiLineLongText(d.values[j].s, settings.secFontSize,
                                                    L.contentWidth)]]]]

\* fitMultiLineLongText throws for some value of some record: text.split is not a
\* function on a boolean or a number
RenderThrows(dataPoints) ==
    \E i \in 1..Len(dataPoints) : \E j \in 1..Len(dataPoints[i].values) :
        ~IsString(dataPoints[i].values[j])

\* a card group whose each() callback did not run: it has no child element
NoChildren(card) ==
    [card EXCEPT !.filled = FALSE, !.fields = <<>>, !.values = <<>>,
                 !.background = [x |-> 0, y |-> 0, height |-> 0, width |-> 0, rx |-> 0,
                                 opacity |-> 0],
                 !.title = [x |-> 0, y2 |-> 0, width |-> 0],
                 !.image = [present |-> FALSE, x |-> 0, y |-> 0, width |-> 0, height |-> 0]]

\* the cards left by the each() loop that throws at the first value that is not a
\* string: the cards before are complete, the card of the value has its value
\* elements without content from that value on, the cards after have no children
RenderCardsUntilThrow(dataPoints, L, settings, r) ==
    LET full == RenderCards(dataPoints, L, settings, r)
        bad(i) == {j \in 1..Len(dataPoints[i].values) : ~IsString(dataPoints[i].values[j])}
        i0 == CHOOSE i \in 1..Len(dataPoints) :
                  bad(i) # {} /\ \A k \in 1..(i - 1) : bad(k) = {}
        j0 == CHOOSE j \in bad(i0) : \A k \in bad(i0) : j <= k
    IN  [i \in 1..Len(dataPoints) |->
            IF i < i0 THEN full[i]
            ELSE IF i > i0 THEN NoChildren(full[i])
            ELSE [full[i] EXCEPT !.values =
                    [j \in 1..Len(full[i].values) |->
                        IF j < j0 THEN full[i].values[j]
                        ELSE [full[i].values[j] EXCEPT !.lines = <<>>]]]]

(***************************************************************************)
(* Visual.update                                                           *)
(***************************************************************************)
\* svg of a call that reached neither attr('height') nor attr('width'): the element
\* keeps the attributes it had
NotSized == [set |-> FALSE, height |-> Num(0), width |-> 0]

\* the call ends by an exception after the '.card' elements were removed
Thrown(settings, L) ==
    [cardSettings |-> settings, layout |-> L, svg |-> NotSized, cards |-> <<>>,
     cardSelection |-> cardSelection, finished |-> FALSE, threw |-> TRUE]

\* visual.ts l.338: if(containerWidth < cardWidth) return
ReturnedEarly(settings, L) ==
    [cardSettings |-> settings, layout |-> L, svg |-> NotSized, cards |-> <<>>,
     cardSelection |-> cardSelection, finished |-> FALSE, threw |-> FALSE]

\* the svg sized and the cards appended, then fitMultiLineLongText throws inside the
\* each() loop: no selection sync, no highlight pass, no handler, no renderingFinished
RenderedUntilThrow(settings, L, dataPoints, r) ==
    [cardSettings |-> settings, layout |-> L,
     svg |-> [set |-> TRUE,
              height |-> calculateTotalSVGHeight(Len(dataPoints), L.cardWidth,
                                                 L.cardHeight, L.containerWidth),
              width |-> L.containerWidth],
     cards |-> RenderCardsUntilThrow(dataPoints, L, settings, r),
     cardSelection |-> [defined |-> TRUE, nodes |-> {}],
     finished |-> FALSE, threw |-> TRUE]

\* Rendered without the removal of the '.card' elements of the call before: the new
\* cards come after them
RenderedOverExisting(settings, L, dataPoints, r) ==
    LET appended == RenderCards(dataPoints, L, settings, r)
        synced == syncSelectionState(appended, selectionIds, settings, r)
    IN  [cardSettings |-> settings, layout |-> L,
         svg |-> [set |-> TRUE,
                  height |-> calculateTotalSVGHeight(Len(dataPoints), L.cardWidth,
                                                     L.cardHeight, L.containerWidth),
                  width |-> L.containerWidth],
         cards |-> cards \o HighlightPass(synced, settings, r),
         cardSelection |-> [defined |-> TRUE, nodes |-> 1..Len(cards)],
         finished |-> TRUE, threw |-> FALSE]

\* the svg sized, the cards appended, selection synced, highlight applied, handlers
\* bound; this.cardSelection is the update selection of the data join, which holds
\* the '.card' elements that existed before it: none, all were removed
Rendered(settings, L, dataPoints, r) ==
    LET existing == {}
        appended == RenderCards(dataPoints, L, settings, r)
        synced == syncSelectionState(appended, selectionIds, settings, r)
    IN  [cardSettings |-> settings, layout |-> L,
         svg |-> [set |-> TRUE,
                  height |-> calculateTotalSVGHeight(Len(dataPoints), L.cardWidth,
                                                     L.cardHeight, L.containerWidth),
                  width |-> L.containerWidth],
         cards |-> HighlightPass(synced, settings, r),
         cardSelection |-> [defined |-> TRUE, nodes |-> existing],
         finished |-> TRUE, threw |-> FALSE]

\* update of src/visual.ts, after HandleLandingPage and the removal of the elements
UpdateVisual(o) ==
    LET dv == o.dataView
        objects == IF dv.kind = "data" THEN o.objects ELSE DefaultObjects
        viewModel == visualTransform(dv, objects, RevVisual)
        settings == viewModel.settings
        dataPoints == viewModel.dataPoints
        cardWidth == ClampCardWidth(settings.width)
        narrow == [NoLayout EXCEPT !.stage = "narrow", !.cardWidth = cardWidth,
                                   !.containerWidth = o.width]
    IN  IF dv.kind = "missing" THEN Thrown(cardSettings, NoLayout)
        ELSE IF settings.state = "empty" THEN Thrown(settings, NoLayout)
        ELSE IF o.width < cardWidth THEN ReturnedEarly(settings, narrow)
        ELSE IF InformationHeightsThrow(dataPoints, settings.secFontSize,
                                        cardWidth - 2 * cardPadding)
             THEN Thrown(settings, narrow)
        ELSE IF dataPoints = <<>> THEN Thrown(settings, narrow)
        ELSE IF RenderThrows(dataPoints)
             THEN RenderedUntilThrow(settings, SizesVisual(settings, dataPoints, o.width),
                                     dataPoints, RevVisual)
        ELSE Rendered(settings, SizesVisual(settings, dataPoints, o.width),
                      dataPoints, RevVisual)

\* update of part_001, after HandleLandingPage and the removal of the elements
UpdateDims(o) ==
    LET dv == o.dataView
        objects == IF dv.kind = "data" THEN o.objects ELSE DefaultObjects
        viewModel == visualTransform(dv, objects, RevDims)
        settings == viewModel.settings
        dataPoints == viewModel.dataPoints
        zero == [ZeroDimensions(o.width) EXCEPT
                    !.titleFontHeight = measureSvgTextHeight(settings.titleFontSize),
                    !.fieldsFontHeight = measureSvgTextHeight(settings.fontSize),
                    !.valuesFontHeight = measureSvgTextHeight(settings.secFontSize),
                    !.hasImages = \E i \in 1..Len(dataPoints) : dataPoints[i].image]
    IN  IF dv.kind = "missing" THEN Thrown(cardSettings, NoLayout)
        ELSE IF settings.state = "empty" THEN Thrown(settings, NoLayout)
        ELSE IF o.width = 0
             THEN IF RenderThrows(dataPoints)
                  THEN RenderedUntilThrow(settings, zero, dataPoints, RevDims)
                  ELSE Rendered(settings, zero, dataPoints, RevDims)
        ELSE IF InformationHeightsThrow(dataPoints, settings.secFontSize,
                                        ClampCardWidth(settings.width) - 2 * cardPadding)
             THEN Thrown(settings, NoLayout)
        ELSE IF dataPoints = <<>> THEN Thrown(settings, NoLayout)
        ELSE IF RenderThrows(dataPoints)
             THEN RenderedUntilThrow(settings,
                                     getCardsDimensions(settings, dataPoints, o.width),
                                     dataPoints, RevDims)
        ELSE Rendered(settings, getCardsDimensions(settings, dataPoints, o.width),
                      dataPoints, RevDims)

\* what one call of update leaves: lp is the outcome of HandleLandingPage, res the
\* outcome of the rest of the call; the cards of pending select promises leave the
\* document
UpdateOutcome(o, lp, res) ==
    /\ options' = o
    /\ isLandingPageOn' = lp.on
    /\ LandingPageRemoved' = lp.removed
    /\ landingPages' = lp.attached
    /\ cardSettings' = res.cardSettings
    /\ layout' = res.layout
    /\ svg' = res.svg
    /\ cards' = res.cards
    /\ cardSelection' = res.cardSelection
    /\ events' = [started |-> TRUE, finished |-> res.finished]
    /\ threw' = res.threw
    /\ pending' = [k \in 1..Len(pending) |-> [pending[k] EXCEPT !.live = FALSE]]
    /\ UNCHANGED <<rev, allowInteractions, selectionIds>>

\* Visual.update(options): one call of the host
update(o) ==
    UpdateOutcome(o, HandleLandingPage(o.dataView, rev),
                  IF rev = RevVisual THEN UpdateVisual(o) ELSE UpdateDims(o))

(***************************************************************************)
(* The host                                                                *)
(***************************************************************************)
\* the data view changes
HostChangesData ==
    \E dv \in DataViewInputs \ {options.dataView} :
        /\ [options EXCEPT !.dataView = dv] \in OptionsInputs
        /\ update([options EXCEPT !.dataView = dv])

\* a property of the format pane changes
HostChangesObjects ==
    \E ob \in ObjectsInputs \ {options.objects} :
        /\ [options EXCEPT !.objects = ob] \in OptionsInputs
        /\ update([options EXCEPT !.objects = ob])

\* the visual is resized
HostResizes ==
    \E w \in ViewportInputs \ {options.width} :
        update([options EXCEPT !.width = w])

\* update is called again with the same options
HostRepeatsUpdate == update(options)

\* selectionManager.select(selectionId, multiSelect) of the host: with multiSelect
\* the id is toggled, without it the id replaces the selection (and clears it when
\* it was the only one selected)
HostSelect(ids, selectionId, multiSelect) ==
    IF multiSelect
    THEN (IF selectionId \in ids THEN ids \ {selectionId} ELSE ids \cup {selectionId})
    ELSE (IF ids = {selectionId} THEN {} ELSE {selectionId})

\* a click handler that selects whether the host allows interactions or not
ClickUnguarded(i, isCtrlPressed) ==
    /\ i \in 1..Len(cards)
    /\ events.finished
    /\ Len(pending) < MaxPending
    /\ selectionIds' = HostSelect(selectionIds, cards[i].selectionId, isCtrlPressed)
    /\ pending' = Append(pending, [ids |-> selectionIds', live |-> TRUE])
    /\ UNCHANGED <<rev, options, allowInteractions, isLandingPageOn, LandingPageRemoved,
                   landingPages, cardSettings, layout, svg, cards, cardSelection,
                   events, threw>>

\* the click handler of card i (1-based), with or without the ctrl key
\* the handlers are bound at the end of update: a call that threw while it filled
\* the cards bound none
Click(i, isCtrlPressed) ==
    /\ i \in 1..Len(cards)
    /\ events.finished
    /\ Len(pending) < MaxPending
    /\ IF allowInteractions
       THEN LET ids == HostSelect(selectionIds, cards[i].selectionId, isCtrlPressed)
            IN  /\ selectionIds' = ids
                /\ pending' = Append(pending, [ids |-> ids, live |-> TRUE])
       ELSE UNCHANGED <<selectionIds, pending>>
    /\ UNCHANGED <<rev, options, allowInteractions, isLandingPageOn, LandingPageRemoved,
                   landingPages, cardSettings, layout, svg, cards, cardSelection,
                   events, threw>>

CardClicked == \E i \in 1..MaxClicked : \E isCtrlPressed \in BOOLEAN : Click(i, isCtrlPressed)

\* the promise of select resolves: .then(ids => this.syncSelectionState(cards, ids)),
\* cards being the elements of the update call that bound the handler
SelectResolved ==
    /\ pending # <<>>
    /\ pending' = Tail(pending)
    /\ cards' = IF Head(pending).live
                THEN syncSelectionState(cards, Head(pending).ids, cardSettings, rev)
                ELSE cards
    /\ UNCHANGED <<rev, options, allowInteractions, selectionIds, isLandingPageOn,
                   LandingPageRemoved, landingPages, cardSettings, layout, svg,
                   cardSelection, events, threw>>

\* the selections the host sets by itself: it clears the selection
CallbackSelections == {{}}

\* the callback of registerOnSelectCallback, invoked by the host when it changes the
\* selection itself: syncSelectionState over
\* this.cardSelection, whose nodes are positions in the rendered cards. With the
\* settings {} of an update that found no values and an empty id set the callback
\* ends by a TypeError, which changes no card either
SelectCallback ==
    \E ids \in CallbackSelections :
        /\ selectionIds' = ids
        /\ cards' = IF cardSelection.defined /\ cardSelection.nodes # {}
                    THEN [i \in 1..Len(cards) |->
                            IF i \in cardSelection.nodes
                            THEN syncSelectionState(cards, ids, cardSettings, rev)[i]
                            ELSE cards[i]]
                    ELSE cards
        /\ UNCHANGED <<rev, options, allowInteractions, pending, isLandingPageOn,
                       LandingPageRemoved, landingPages, cardSettings, layout, svg,
                       cardSelection, events, threw>>

(***************************************************************************)
(* Specifications                                                          *)
(***************************************************************************)
\* the state after the constructor; the host has not called update yet
InitInstance ==
    /\ options = [dataView |-> NoDataViews, objects |-> DefaultObjects, width |-> 600]
    /\ allowInteractions \in BOOLEAN
    /\ selectionIds = {}
    /\ pending = <<>>
    /\ isLandingPageOn = FALSE
    /\ LandingPageRemoved = FALSE
    /\ landingPages = 0
    /\ cardSettings = [EmptySettings EXCEPT !.state = "undefined"]
    /\ layout = NoLayout
    /\ svg = NotSized
    /\ cards = <<>>
    /\ cardSelection = [defined |-> FALSE, nodes |-> {}]
    /\ events = [started |-> FALSE, finished |-> FALSE]
    /\ threw = FALSE

Init == rev = RevVisual /\ InitInstance

InitDims == rev = RevDims /\ InitInstance

Next ==
    \/ HostChangesData
    \/ HostChangesObjects
    \/ HostResizes
    \/ HostRepeatsUpdate
    \/ CardClicked
    \/ SelectResolved
    \/ SelectCallback

\* the visual of src/visual.ts
Spec == Init /\ [][Next]_vars

\* the visual of part_001
SpecDims == InitDims /\ [][Next]_vars


(***************************************************************************)
(* Properties                                                              *)
(***************************************************************************)
\* the y of line k (1-based) of a rendered value: the first tspan sits at the y of the
\* text element, every further tspan dy below the one before
LineY(value, k) == value.y + (k - 1) * value.dy

\* the cards without their opacity
Geometry(selection) == [i \in 1..Len(selection) |-> [selection[i] EXCEPT !.opacity = 0]]

\* C1: every update with at least one record and a viewport narrower than the clamped
\* card width (width 0 included) lays the cards out in one valid column: all the cards
\* are rendered, card i at x = 0 and y = i * cardHeight, and the svg height is a finite
\* non-negative number
C1_NarrowViewportSingleColumn ==
    (/\ events.started
     /\ HasValues(options.dataView) /\ options.dataView.n >= 1
     /\ options.width < ClampCardWidth(options.objects.cardWidth))
    => /\ svg.set /\ IsFinite(svg.height) /\ Val(svg.height) >= 0
       /\ Len(cards) = options.dataView.n
       /\ \A i \in 1..Len(cards) :
            /\ cards[i].x = Num(0)
            /\ cards[i].y = Num((i - 1) * layout.cardHeight)

\* C2: in the cards of one update there is one row height per field index, the same
\* for the offsets of every card, and it is at least the wrapped height (lines times
\* the value line height) of that field's value in every record
C2_RowHeightCoversEveryRecord ==
    cards # <<>> =>
        /\ Len(layout.longestHeights) = Len(cards[1].values)
        /\ \A i \in 1..Len(cards) : \A j \in 1..Len(cards[i].values) :
            /\ layout.longestHeights[j]
                   >= Len(cards[i].values[j].lines) * layout.valuesFontHeight
            /\ cards[i].fields[j] = cards[1].fields[j]
            /\ j > 1 => cards[i].fields[j] - cards[i].fields[j - 1]
                            = layout.fieldsFontHeight + layout.longestHeights[j - 1]

\* C3: in every rendered card the label of field j, the lines of value j and the label
\* of field j+1 have strictly increasing y, and the last line of the last value is
\* above the bottom edge of the background, however many lines the values take
C3_TextStackedInsideCard ==
    \A i \in 1..Len(cards) :
        LET c == cards[i]
            f == Len(c.values)
        IN  \A j \in 1..f :
                LET lines == Len(c.values[j].lines)
                IN  /\ c.fields[j] < LineY(c.values[j], 1)
                    /\ \A k \in 2..lines : LineY(c.values[j], k - 1) < LineY(c.values[j], k)
                    /\ j < f => LineY(c.values[j], lines) < c.fields[j + 1]
                    /\ j = f => LineY(c.values[j], lines)
                                    < c.background.y + c.background.height

\* a card with two fields or more whose first value wraps to several lines
C3_Witness ==
    \E i \in 1..Len(cards) :
        /\ Len(cards[i].values) >= 2
        /\ Len(cards[i].values[1].lines) >= 2

\* C4: with perRow = floor(containerWidth / cardWidth) >= 1, positionCardInGrid gives
\* index the x (index mod perRow) * cardWidth and the y floor(index / perRow) *
\* cardHeight; index 0 is at (0, 0), index perRow at (0, cardHeight); the rendered
\* cards sit at these positions
C4_GridPosition ==
    layout.stage = "done" =>
        LET perRow == layout.containerWidth \div layout.cardWidth
            at(index) == positionCardInGrid(index, layout.cardWidth, layout.cardHeight,
                                            layout.containerWidth)
        IN  perRow >= 1 =>
                /\ \A index \in 0..(2 * perRow) :
                    at(index) = [x |-> Num((index % perRow) * layout.cardWidth),
                                 y |-> Num((index \div perRow) * layout.cardHeight)]
                /\ at(0) = [x |-> Num(0), y |-> Num(0)]
                /\ at(perRow) = [x |-> Num(0), y |-> Num(layout.cardHeight)]
                /\ \A i \in 1..Len(cards) :
                    /\ cards[i].x = Num(((i - 1) % perRow) * layout.cardWidth)
                    /\ cards[i].y = Num(((i - 1) \div perRow) * layout.cardHeight)

\* cards on two rows of a grid of two columns or more
C4_Witness ==
    /\ layout.stage = "done"
    /\ layout.containerWidth \div layout.cardWidth >= 2
    /\ \E i \in 1..Len(cards) : cards[i].x = Num(0) /\ cards[i].y = Num(layout.cardHeight)
    /\ \E i \in 1..Len(cards) : cards[i].x = Num(layout.cardWidth) /\ cards[i].y = Num(0)

\* C5: for every record count, 0 included, an update whose viewport holds at least one
\* card per row sets the svg height to ceil(recordCount / perRow) * cardHeight
C5_CanvasHeight ==
    (/\ events.started
     /\ HasValues(options.dataView)
     /\ options.width >= ClampCardWidth(options.objects.cardWidth))
    => LET perRow == options.width \div ClampCardWidth(options.objects.cardWidth)
           n == options.dataView.n
       IN  /\ svg.set
           /\ svg.height = Num(((n + perRow - 1) \div perRow) * layout.cardHeight)

\* C6: whatever cards.cardWidth is configured, the card width an update lays the cards
\* out with is that width clamped to [150, 1200]
C6_CardWidthClamped ==
    (events.started /\ layout.stage # "none")
    => LET configured == options.objects.cardWidth
       IN  /\ layout.cardWidth >= 150 /\ layout.cardWidth <= 1200
           /\ layout.cardWidth = (IF configured < 150 THEN 150
                                  ELSE IF configured > 1200 THEN 1200 ELSE configured)

\* C7: the card height of an update is 30 + the sum of the row heights used for the
\* offsets + one field line per field + (with images: the larger of the title line and
\* the image size; without: two title lines)
C7_CardHeightFormula ==
    layout.stage = "done" =>
        LET numFields == Len(cards[1].values)
            rowHeight == layout.longestHeights
        IN  /\ Len(rowHeight) = numFields
            /\ \A i \in 1..Len(cards) : \A j \in 2..numFields :
                cards[i].fields[j] - cards[i].fields[j - 1]
                    = layout.fieldsFontHeight + rowHeight[j - 1]
            /\ \A i \in 1..Len(cards) :
                cards[i].background.height + 2 * cardMargin
                    = 30 + SumSeq(rowHeight) + layout.fieldsFontHeight * numFields
                      + (IF cards[i].image.present
                         THEN d3max(layout.titleFontHeight, cards[i].image.height)
                         ELSE 2 * layout.titleFontHeight)
            /\ \A i \in 1..Len(cards) :
                cards[i].y \in {Num(k * (cards[i].background.height + 2 * cardMargin)) :
                                    k \in 0..(i - 1)}

\* cards with an image and a field, rendered
C7_Witness ==
    /\ layout.stage = "done"
    /\ \E i \in 1..Len(cards) : cards[i].image.present /\ Len(cards[i].values) >= 1

\* C8: an update with no data view (dataViews missing or empty) or with a category of
\* zero values does not throw and leaves no card
C8_EmptyStatesDoNotThrow ==
    (/\ events.started
     /\ \/ options.dataView.kind \in {"missing", "empty"}
        \/ options.dataView.n = 0)
    => ~threw /\ cards = <<>>

\* C9: an update called again with the options of the call before, the selection
\* unchanged, leaves the svg size, the sizes and every card's position, element
\* coordinates and texts as they were
C9_RepeatedUpdateIdentical ==
    [][(events.started /\ options' = options /\ selectionIds' = selectionIds
            /\ update(options'))
        => (/\ svg' = svg
            /\ layout' = layout
            /\ Geometry(cards') = Geometry(cards)
            /\ threw' = threw
            /\ events' = events)]_vars

\* rendered cards on two rows, a value on several lines, a card selected
C9_Witness ==
    /\ events.finished
    /\ selectionIds # {}
    /\ \E i \in 1..Len(cards) : cards[i].y # Num(0)
    /\ \E i \in 1..Len(cards) : \E j \in 1..Len(cards[i].values) :
            Len(cards[i].values[j].lines) >= 2

\* C10: after every update that renders cards, the opacity of a card is
\* (1 - transparency / 100) * highlightFactor * selectionFactor: highlightFactor 0.4
\* for a record not highlighted, selectionFactor 0.4 for a card not selected while the
\* selection is not empty, 1 otherwise (opacity in 1/10000, the product in 1/100000)
C10_CombinedOpacity ==
    [][(update(options') /\ cards' # <<>>)
        => \A i \in 1..Len(cards') :
            10 * cards'[i].opacity
                = (100 - cardSettings'.transparency)
                  * (IF cards'[i].highlights THEN 100 ELSE 40)
                  * (IF selectionIds' # {} /\ cards'[i].selectionId \notin selectionIds'
                     THEN 4 ELSE 10)]_vars

\* C11: after an update with an empty selection the opacity of every card is
\* 1 - backgroundTransparency / 100 for a highlighted record and 0.4 times that for a
\* record not highlighted, whatever the other records are (opacity in 1/10000)
C11_OpacityWithEmptySelection ==
    [][(update(options') /\ selectionIds' = {} /\ cards' # <<>>)
        => \A i \in 1..Len(cards') :
            cards'[i].opacity
                = (IF options'.dataView.dimmed = {} \/ i \notin options'.dataView.dimmed
                   THEN (100 - options'.objects.backgroundTransparency) * 100
                   ELSE (100 - options'.objects.backgroundTransparency) * 40)]_vars

\* no selection, a card dimmed by its highlight flag next to a card at full opacity
C11_Witness ==
    /\ selectionIds = {} /\ pending = <<>> /\ events.finished
    /\ \E i \in 1..Len(cards) : ~cards[i].highlights /\ cards[i].opacity = 4000
    /\ \E i \in 1..Len(cards) : cards[i].highlights /\ cards[i].opacity = 10000

\* C12: when the promise of a click's select resolves with an id set, every rendered
\* card has the base opacity if the set is empty or holds the card's selection id, and
\* the dimmed opacity (0.4 of it) if the set is not empty and does not hold it
C12_ClickResync ==
    [][(Len(pending') < Len(pending))
        => \A i \in 1..Len(cards') :
            cards'[i].opacity
                = (100 - cardSettings.transparency)
                  * (IF Head(pending).ids = {} \/ cards'[i].selectionId \in Head(pending).ids
                     THEN 100 ELSE 40)]_vars

\* C13: when the host invokes the callback registered through registerOnSelectCallback,
\* every rendered card gets the opacity of its state in getSelectionIds(): the base
\* opacity if the selection is empty or holds its id, 0.4 of it otherwise
C13_SelectCallbackResync ==
    [][(selectionIds' # selectionIds /\ pending' = pending)
        => \A i \in 1..Len(cards') :
            cards'[i].opacity
                = (100 - cardSettings.transparency)
                  * (IF selectionIds' = {} \/ cards'[i].selectionId \in selectionIds'
                     THEN 100 ELSE 40)]_vars

\* C14: after every update call that returns, the rendered cards are the records of
\* the data view of that call, one card per record and in their order
C14_CardsMatchRecords ==
    (events.started /\ ~threw)
    => /\ Len(cards) = options.dataView.n
       /\ \A i \in 1..Len(cards) : cards[i].selectionId = i

\* C15: formatDataViewValues returns the string '(Blank)' for a null and for an
\* undefined value, whatever the column type, the format string and the display
\* units: so does it for every such cell of the data view of an update
C15_NullIsBlank ==
    (events.started /\ HasValues(options.dataView)) =>
        /\ \A value \in {Null, Undefined} : \A type \in ColumnTypes :
           \A format \in Formats : \A displayUnits \in DisplayUnits :
                formatDataViewValues(value, type, format, displayUnits, rev) = Str(Blank)
        /\ \A i \in 1..options.dataView.n : \A j \in 1..options.dataView.f :
                IsNullish(options.dataView.values[i][j])
                => TransformDataPoints(options.dataView, rev)[i].values[j] = Str(Blank)

\* an update rendered the card of a record whose value is undefined: the value
\* element shows the lines (Blank) is wrapped to
C15_Witness ==
    /\ events.finished /\ HasValues(options.dataView)
    /\ \E i \in 1..Len(cards) : \E j \in 1..Len(cards[i].values) :
            /\ options.dataView.values[i][j] = Undefined
            /\ TransformDataPoints(options.dataView, rev)[i].values[j] = Str(Blank)
            /\ cards[i].values[j].lines
                 = fitMultiLineLongText(Blank, cardSettings.secFontSize, layout.contentWidth)
            /\ cards[i].values[j].lines[1][1] = "("

\* C16: formatDataViewValues returns a string for every input, the raw value of a
\* column without a format string that is not numeric included: every entry of the
\* values of the records of an update is a string, and fitMultiLineLongText can take
\* the length of it and split it
C16_ValuesAreStrings ==
    (events.started /\ HasValues(options.dataView)) =>
        LET dataPoints == TransformDataPoints(options.dataView, rev)
        IN  /\ \A i \in 1..Len(dataPoints) : \A j \in 1..Len(dataPoints[i].values) :
                    IsString(dataPoints[i].values[j])
            /\ ~RenderThrows(dataPoints)

\* the words of a text: what is left between its blanks
WordsOf(text) == SelectSeq(Split(text), LAMBDA w : w # <<>>)

\* the words of the lines joined by single blanks
RECURSIVE WordsOfLines(_)
WordsOfLines(lines) ==
    IF lines = <<>> THEN <<>> ELSE WordsOf(Head(lines)) \o WordsOfLines(Tail(lines))

\* C17: for every value of an update whose words all fit the character budget,
\* the lines separateTextInLines returns, joined by single blanks, hold the words of
\* the value in their order, nothing added and nothing lost, consecutive, leading
\* and trailing blanks included
C17_WrapRoundTrip ==
    (events.started /\ HasValues(options.dataView) /\ layout.stage = "done") =>
        LET dataPoints == TransformDataPoints(options.dataView, rev)
        IN  \A i \in 1..Len(dataPoints) : \A j \in 1..Len(dataPoints[i].values) :
                LET text == dataPoints[i].values[j].s
                    budget == MaxCharsPerLine(text, cardSettings.secFontSize,
                                              layout.contentWidth)
                IN  (/\ IsString(dataPoints[i].values[j])
                     /\ IsFinite(budget) /\ Val(budget) >= 1
                     /\ \A k \in 1..Len(WordsOf(text)) :
                            Len(WordsOf(text)[k]) <= Val(budget))
                    => WordsOfLines(separateTextInLines(text, budget)) = WordsOf(text)

\* C18: the row height an update uses for field index j is exactly the largest
\* wrapped height of the value at index j over all the records: nothing is added to
\* it, whatever the number of records
C18_RowHeightIsMax ==
    (events.started /\ layout.stage = "done" /\ layout.informationHeights # <<>>) =>
        /\ Len(layout.longestHeights) = Len(layout.informationHeights[1])
        /\ \A j \in 1..Len(layout.longestHeights) :
            /\ \E i \in 1..Len(layout.informationHeights) :
                    layout.longestHeights[j] = layout.informationHeights[i][j]
            /\ \A i \in 1..Len(layout.informationHeights) :
                    layout.longestHeights[j] >= layout.informationHeights[i][j]

\* C19: an update call that fails or is abandoned before it has computed the new
\* records and the new layout (it never sizes the svg) has mutated no rendered
\* output: the cards rendered before the call are left as they were
C19_OutputKeptOnFailure ==
    [][(update(options') /\ ~svg'.set /\ ~events'.finished) => cards' = cards]_vars

\* C20: after the opacity resync that follows a selection toggle (the promise of
\* select resolves and syncSelectionState runs with its id set, empty or not), every
\* card whose record is not highlighted is still dimmed by the highlight factor 0.4:
\* its opacity is at most 0.4 * (1 - transparency / 100) (opacity in 1/10000)
C20_HighlightSurvivesResync ==
    [][(Len(pending') < Len(pending))
        => \A i \in 1..Len(cards') :
                ~cards'[i].highlights
                => cards'[i].opacity <= (100 - cardSettings'.transparency) * 40]_vars

\* C21: for every value that is a non-empty text, with the character budget update
\* computes for it (floor(length * content width / measured width) - 1),
\* separateTextInLines completes, also when the budget is 0 or negative, and every
\* line it returns is at most budget characters long
C21_LinesWithinBudget ==
    (/\ events.started /\ HasValues(options.dataView) /\ cardSettings.state = "set"
     /\ options.width >= ClampCardWidth(cardSettings.width)) =>
        LET dataPoints == TransformDataPoints(options.dataView, rev)
        IN  \A i \in 1..Len(dataPoints) : \A j \in 1..Len(dataPoints[i].values) :
                LET text == dataPoints[i].values[j].s
                    budget == MaxCharsPerLine(text, cardSettings.secFontSize,
                                              ClampCardWidth(cardSettings.width)
                                              - 2 * cardPadding)
                    lines == separateTextInLines(text, budget)
                IN  (IsString(dataPoints[i].values[j]) /\ text # <<>>)
                    => /\ ~RegExpThrows(budget)
                       /\ \A k \in 1..Len(lines) : Len(lines[k]) <= Val(budget)

\* C22: for a value whose text is measured 0 wide (the empty string) the character
\* budget of calculateMultiLineTextHeight and fitMultiLineLongText is a number (not
\* NaN), the height is finite and the rendered lines are well formed: they hold no
\* text that the value does not have
C22_ZeroWidthBudget ==
    (events.finished /\ HasValues(options.dataView)) =>
        LET dataPoints == TransformDataPoints(options.dataView, rev)
        IN  \A i \in 1..Len(cards) : \A j \in 1..Len(cards[i].values) :
                LET text == dataPoints[i].values[j].s
                IN  (/\ IsString(dataPoints[i].values[j])
                     /\ measureSvgTextWidth(text, cardSettings.secFontSize) = 0)
                    => /\ MaxCharsPerLine(text, cardSettings.secFontSize,
                                          layout.contentWidth) # NaN
                       /\ \A k \in 1..Len(cards[i].values[j].lines) :
                                cards[i].values[j].lines[k] = <<>>

\* a string that is empty or holds blanks only
IsWhiteSpace(v) == IsString(v) /\ \A k \in 1..Len(v.s) : v.s[k] = " "

\* C23: formatDataViewValues returns '(Blank)' whenever the formatted result is the
\* empty string or holds whitespace only: so it does for every such value of the
\* data view of an update
C23_WhiteSpaceIsBlank ==
    (events.started /\ HasValues(options.dataView)) =>
        \A i \in 1..options.dataView.n : \A j \in 1..options.dataView.f :
            IsWhiteSpace(FormatResultDims(options.dataView.values[i][j],
                                          options.dataView.columnType,
                                          options.dataView.format))
            => TransformDataPoints(options.dataView, rev)[i].values[j] = Str(Blank)

\* C24: the corner radius rx of the background of every rendered card is within
\* [0, 15], whatever borderRadius is configured, negative or above 15
C24_RadiusClamped ==
    \A i \in 1..Len(cards) :
        cards[i].filled => (cards[i].background.rx >= 0 /\ cards[i].background.rx <= 15)

\* C25: every call of update that signalled renderingStarted has signalled
\* renderingFinished when it ends, whatever its input: a viewport narrower than one
\* card, a missing or an empty data view included
C25_RenderingFinished == events.started => events.finished

\* C26: when the promise of a click's select resolves after an update call ran in
\* between, the cards that are rendered now (those of the later update) have the
\* opacity of their state in the ids the promise returned: the base opacity if the
\* set is empty or holds the card's id, 0.4 of it otherwise
C26_ResyncAfterUpdate ==
    [][(Len(pending') < Len(pending) /\ ~Head(pending).live)
        => \A i \in 1..Len(cards') :
            cards'[i].opacity
                = (100 - cardSettings.transparency)
                  * (IF Head(pending).ids = {} \/ cards'[i].selectionId \in Head(pending).ids
                     THEN 100 ELSE 40)]_vars

\* C27: after any sequence of update calls the landing page element is attached iff
\* the latest update had no data view (dataViews missing or empty), and at most one
\* landing page element is attached at any time
C27_LandingPageIffNoData ==
    events.started =>
        /\ landingPages <= 1
        /\ (landingPages = 1) <=> (options.dataView.kind \in {"missing", "empty"})

\* C28: when an update rendered at least one card with cardHeight > 0 and
\* containerWidth >= cardWidth > 0, no two cards have the same grid position and the
\* cell of every card lies inside the canvas: x >= 0, x + cardWidth <= containerWidth,
\* y >= 0 and y + cardHeight <= the svg height set from calculateTotalSVGHeight
C28_CellsInsideCanvas ==
    (/\ events.finished /\ svg.set /\ cards # <<>>
     /\ layout.cardHeight > 0 /\ layout.cardWidth > 0
     /\ layout.containerWidth >= layout.cardWidth) =>
        /\ svg.height = calculateTotalSVGHeight(Len(cards), layout.cardWidth,
                                                layout.cardHeight, layout.containerWidth)
        /\ IsFinite(svg.height)
        /\ \A i \in 1..Len(cards) :
            /\ positionCardInGrid(i - 1, layout.cardWidth, layout.cardHeight,
                                  layout.containerWidth) = [x |-> cards[i].x, y |-> cards[i].y]
            /\ IsFinite(cards[i].x) /\ IsFinite(cards[i].y)
            /\ Val(cards[i].x) >= 0
            /\ Val(cards[i].x) + layout.cardWidth <= layout.containerWidth
            /\ Val(cards[i].y) >= 0
            /\ Val(cards[i].y) + layout.cardHeight <= Val(svg.height)
            /\ \A k \in 1..Len(cards) :
                    (k # i) => <<cards[k].x, cards[k].y>> # <<cards[i].x, cards[i].y>>

\* three cards or more in a grid of two columns or more: the last row is not full
C28_Witness ==
    /\ events.finished /\ svg.set /\ Len(cards) >= 3
    /\ layout.containerWidth \div layout.cardWidth = 2
    /\ cards[3].x = Num(0) /\ cards[3].y = Num(layout.cardHeight)
    /\ svg.height = Num(2 * layout.cardHeight)

\* the records of the data view dv2 are the records of dv1 in another order
IsPermutationOf(dv2, dv1) ==
    /\ dv1.kind = "data" /\ dv2.kind = "data"
    /\ dv1.n = dv2.n /\ dv1.f = dv2.f /\ dv1.images = dv2.images
    /\ dv1.columnType = dv2.columnType /\ dv1.format = dv2.format
    /\ \E p \in Permutations(1..dv1.n) :
            dv2.values = [r \in 1..dv1.n |-> dv1.values[p[r]]]

\* C29: an update whose data view holds the records of the update before in another
\* order, the format pane and the viewport unchanged, computes the same row height
\* for every field index and the same card height
C29_RowHeightOrderIndependent ==
    [][(/\ update(options')
        /\ layout.stage = "done" /\ layout'.stage = "done"
        /\ options'.objects = options.objects /\ options'.width = options.width
        /\ IsPermutationOf(options'.dataView, options.dataView))
        => (/\ layout'.longestHeights = layout.longestHeights
            /\ layout'.cardHeight = layout.cardHeight)]_vars

\* the opacities of the cards, in their order
Opacities(selection) == [i \in 1..Len(selection) |-> selection[i].opacity]

\* C30: a click on a card while host.allowInteractions is false does not call
\* selectionManager.select (no promise is pending after it) and leaves the selection
\* and the opacity of every card as they were
C30_ClickWithoutInteractions ==
    [][(~allowInteractions /\ CardClicked)
        => (/\ selectionIds' = selectionIds
            /\ pending' = pending
            /\ Opacities(cards') = Opacities(cards))]_vars

\* interactions are not allowed and cards are rendered, one of them dimmed: a click
\* can happen
C30_Witness ==
    /\ ~allowInteractions /\ events.finished /\ Len(cards) >= 2
    /\ \E i \in 1..Len(cards) : cards[i].opacity < 10000

=============================================================================
